---- MODULE Spec2Model ----
(***************************************************************************)
(* Model of src/pints.js: the Application object that tracks the user's    *)
(* location and heading, fetches nearby pubs and renders the target pub.   *)
(*                                                                         *)
(* Encoding.  A JavaScript value that may be null is a set with at most    *)
(* one element: null is {} and a value v is {v}.  Coordinates lie on one   *)
(* meridian (longitude 0) and a latitude is written as its arc length in   *)
(* metres from the origin, so that the great-circle distance between two   *)
(* of them is the absolute difference of the latitudes and the initial     *)
(* bearing is 0 (north) or 180 (south).  Event handlers run one at a time  *)
(* (the browser's event loop); one action is one handler run, together     *)
(* with the microtasks it leaves behind.                                   *)
(***************************************************************************)
EXTENDS Integers, Sequences, FiniteSets, TLC

VARIABLES
    currentLocation,  \* this.currentLocation: null or [latitude, longitude]
    currentHeading,   \* this.currentHeading: null or degrees
    nearbyPubs,       \* this.nearbyPubs: null or a sequence of pubs
    selectedPubId,    \* this.selectedPubId: null or a pub id
    pendingFetch,     \* this._pendingFetch: null or the promise
    statusPane,       \* #status: [classList, innerHTML, display]
    compassDiv,       \* #compass: [display, transform]
    distanceDiv,      \* #distance: [innerHTML, display]
    nameDiv,          \* #name: [innerHTML, display]
    pubListElem,      \* #list: [ul, display]
    inflight,         \* the activations of fetchNearbyPubs suspended at an await
    last,             \* the handler that ran last and what it did
    navigator,        \* the sensors the browser has: [geolocation, orientation]
    headingListener,  \* whether this._onHeading is registered on the window
    positionWatch,    \* whether the watch of this.watchId is active
    call,             \* the arguments of a function applied on its own, or null
    result            \* what that function returned, or null

app == <<currentLocation, currentHeading, nearbyPubs, selectedPubId, pendingFetch>>
dom == <<statusPane, compassDiv, distanceDiv, nameDiv, pubListElem>>
subscriptions == <<navigator, headingListener, positionWatch>>
harness == <<call, result>>
vars == <<app, dom, inflight, last, subscriptions, harness>>

null == {}
Val(x) == CHOOSE v \in x : TRUE

----------------------------------------------------------------------------
(* Bounds and inputs *)

\* Longest list of elements the search service returns.
MaxLen == 2

\* Latitudes (metres of arc) the location source delivers.
Latitudes == {0, 250, 300, 400}

\* Raw alpha values the orientation source delivers.
Alphas == {90}

\* Ids of the pubs the search service knows.
PubIds == {1, 2, 3}

\* HTTP statuses the search service answers with.
Statuses == {200, 500}

Coordinate(lat) == [latitude |-> lat, longitude |-> 0]

PubLat(id) == CASE id % 3 = 1 -> 200 [] id % 3 = 2 -> 0 [] OTHER -> 400

\* The Overpass element of pub id: a way with a "center" for even ids, a node
\* otherwise; every third pub has no name tag.
Element(id) ==
    LET tags == IF id % 3 = 0 THEN [amenity |-> "pub"]
                ELSE [amenity |-> "pub", name |-> "Pub " \o ToString(id)]
    IN  IF id % 2 = 0
        THEN [id |-> id, center |-> [lat |-> PubLat(id), lon |-> 0], tags |-> tags]
        ELSE [id |-> id, lat |-> PubLat(id), lon |-> 0, tags |-> tags]

\* A malformed element: no "tags" member.
BrokenElement(id) == [id |-> id, lat |-> PubLat(id), lon |-> 0]

IdSeqs == {s \in UNION {[1..n -> PubIds] : n \in 0..MaxLen} :
              \A i, j \in DOMAIN s : i # j => s[i] # s[j]}

\* The JSON bodies of the service: no "elements" member, a list of
\* elements, or a list of elements the last of which is malformed; in
\* Payload the element at brokenAt is the malformed one (0: none).
Payload(ids, brokenAt) ==
    [elements |-> [i \in DOMAIN ids |->
        IF i = brokenAt THEN BrokenElement(ids[i]) ELSE Element(ids[i])]]

Payloads ==
    {[other |-> TRUE]} \cup
    {Payload(ids, 0) : ids \in IdSeqs} \cup
    {Payload(ids, Len(ids)) : ids \in IdSeqs \ {<<>>}}

----------------------------------------------------------------------------
(* Geo math *)

Abs(n) == IF n < 0 THEN -n ELSE n

\* haversineDistance on one meridian: R * |lat2 - lat1| (in radians), which
\* is the difference of the arc lengths.
haversineDistance(lat1, lon1, lat2, lon2) == Abs(lat2 - lat1)

\* bearingBetween on one meridian: y = 0 and x = sin(lat2 - lat1), so
\* atan2 gives 0 for x >= 0 (atan2(0, 0) = 0) and pi for x < 0.
bearingBetween(lat1, lon1, lat2, lon2) ==
    IF lat2 - lat1 >= 0 THEN (0 + 360) % 360 ELSE (180 + 360) % 360

coordStr(loc) == <<loc.latitude, loc.longitude>>

----------------------------------------------------------------------------
(* Target resolution *)

distanceSort(self, pub1, pub2) ==
    LET here == Val(self.currentLocation)
        d1 == haversineDistance(here.latitude, here.longitude,
                                pub1.latitude, pub1.longitude)
        d2 == haversineDistance(here.latitude, here.longitude,
                                pub2.latitude, pub2.longitude)
    IN  d1 - d2

RECURSIVE InsertUnstable(_, _, _)
InsertUnstable(self, s, p) ==
    IF s = <<>> THEN <<p>>
    ELSE IF distanceSort(self, Head(s), p) >= 0 THEN <<p>> \o s
    ELSE <<Head(s)>> \o InsertUnstable(self, Tail(s), p)

\* Insert p into the sorted sequence s behind every element that does not
\* compare greater than it.
RECURSIVE Insert(_, _, _)
Insert(self, s, p) ==
    IF s = <<>> THEN <<p>>
    ELSE IF distanceSort(self, Head(s), p) > 0 THEN <<p>> \o s
    ELSE <<Head(s)>> \o Insert(self, Tail(s), p)

\* Array.prototype.toSorted with the distance comparator: a stable sort into
\* a new array.
RECURSIVE toSorted(_, _)
toSorted(self, s) ==
    IF s = <<>> THEN <<>>
    ELSE Insert(self, toSorted(self, SubSeq(s, 1, Len(s) - 1)), s[Len(s)])

\* Array.prototype.find on the pub id: the first match, or null.
find(pubs, id) ==
    LET hits == {i \in DOMAIN pubs : pubs[i].id = id}
    IN  IF hits = {} THEN null
        ELSE {pubs[CHOOSE i \in hits : \A j \in hits : i <= j]}

selectedPub(self) ==
    LET pubs == Val(self.nearbyPubs)
        pub == IF self.selectedPubId # null /\ Val(self.selectedPubId) # 0
               THEN find(pubs, Val(self.selectedPubId)) ELSE null
    IN  IF pub # null THEN Val(pub)
        ELSE toSorted(self, pubs)[1]

----------------------------------------------------------------------------
(* Rendering *)

STATUS_CLASSES == {"info", "error"}

Dom(status, compass, distance, name, list) ==
    [statusPane |-> status, compassDiv |-> compass, distanceDiv |-> distance,
     nameDiv |-> name, pubListElem |-> list]

\* Number.prototype.toFixed(2) of meters / 1000, in hundredths of a kilometre
\* (150 stands for "1.50"), for whole metres that do not end in 5; there the
\* binary fraction nearest to meters / 1000 decides the last digit.
toFixed2(meters) == (meters + 5) \div 10

distanceStrFrom1000(meters) ==
    IF meters >= 1000
    THEN [distanceStr |-> toFixed2(meters), units |-> "km"]
    ELSE [distanceStr |-> meters, units |-> "m"]

\* The digits and the unit of the distance string; toFixed(0) of whole
\* metres is the number itself.
distanceStr(meters) ==
    IF meters > 1000
    THEN [distanceStr |-> toFixed2(meters), units |-> "km"]
    ELSE [distanceStr |-> meters, units |-> "m"]

mapsHref(self, pub) ==
    [origin |-> coordStr(Val(self.currentLocation)), destination |-> coordStr(pub)]

\* setStatus with fatal = false.
setStatus(d, msg, level) ==
    [d EXCEPT !.statusPane =
        [classList |-> (d.statusPane.classList \ STATUS_CLASSES) \cup {level},
         innerHTML |-> msg, display |-> "block"]]

clearStatus(d) ==
    [d EXCEPT !.statusPane.innerHTML = "", !.statusPane.display = "none"]

setDistance(d, meters) ==
    [d EXCEPT !.distanceDiv = [innerHTML |-> distanceStr(meters), display |-> "block"]]

setName(self, d, closestPub) ==
    LET name == IF closestPub.name # null THEN Val(closestPub.name) ELSE "Unnamed Pub"
    IN  [d EXCEPT !.nameDiv =
            [innerHTML |-> [href |-> mapsHref(self, closestPub), text |-> name],
             display |-> "block"]]

\* The list item of one pub: its radio input (checked attribute, and the id
\* its change listener selects), its link and its distance.
createLinkElem(self, pub) ==
    LET here == Val(self.currentLocation)
        distance == haversineDistance(here.latitude, here.longitude,
                                      pub.latitude, pub.longitude)
    IN  [checked |-> self.selectedPubId = {pub.id},
         pubId |-> pub.id,
         href |-> mapsHref(self, pub),
         text |-> IF pub.name # null THEN Val(pub.name) ELSE "Unnamed Pub",
         distanceStr |-> distanceStr(distance)]

setNearbyPubsDisplay(self, d) ==
    LET pubs == toSorted(self, Val(self.nearbyPubs))
    IN  [d EXCEPT !.pubListElem =
            [ul |-> [i \in DOMAIN pubs |-> createLinkElem(self, pubs[i])],
             display |-> "block"]]

\* The early return of updateUI and updateBearingUI.
NothingToShow(self) ==
    \/ self.currentLocation = null
    \/ self.nearbyPubs = null
    \/ Len(Val(self.nearbyPubs)) = 0

\* A null heading is 0 in arithmetic.
Number(x) == IF x = null THEN 0 ELSE Val(x)

shortRelBearingUnnormalised(bearing, heading) == (bearing - heading + 360) % 360

\* Lines 175-176, on whole degrees.
shortRelBearing(bearing, heading) ==
    LET relBearing == (bearing - heading + 360) % 360
    IN  ((relBearing + 540) % 360) - 180

updateBearingUI(self, d) ==
    IF NothingToShow(self) THEN d
    ELSE LET here == Val(self.currentLocation)
             closestPub == selectedPub(self)
             bearing == bearingBetween(here.latitude, here.longitude,
                                       closestPub.latitude, closestPub.longitude)
         IN  [d EXCEPT !.compassDiv.transform =
                {shortRelBearing(bearing, Number(self.currentHeading))}]

updateUI(self, d) ==
    IF NothingToShow(self) THEN d
    ELSE LET here == Val(self.currentLocation)
             d1 == [clearStatus(d) EXCEPT !.compassDiv.display = "block",
                                          !.distanceDiv.display = "block"]
             closestPub == selectedPub(self)
             distance == haversineDistance(here.latitude, here.longitude,
                                           closestPub.latitude, closestPub.longitude)
             d2 == setDistance(d1, distance)
             d3 == setName(self, d2, closestPub)
             d4 == setNearbyPubsDisplay(self, d3)
         IN  updateBearingUI(self, d4)

----------------------------------------------------------------------------
(* Handlers.  A handler is an operator from the state st before it runs (the
   fields of the Application, the DOM and the suspended fetches) to the
   state after it. *)

State ==
    [currentLocation |-> currentLocation, currentHeading |-> currentHeading,
     nearbyPubs |-> nearbyPubs, selectedPubId |-> selectedPubId,
     pendingFetch |-> pendingFetch,
     dom |-> Dom(statusPane, compassDiv, distanceDiv, nameDiv, pubListElem),
     inflight |-> inflight]

\* Line 71: the heading of a raw alpha.
headingOf(alpha) == 360 - alpha

setHeadingFullUpdate(st, alpha) ==
    LET s1 == [st EXCEPT !.currentHeading = {headingOf(alpha)}]
    IN  [s1 EXCEPT !.dom = updateUI(s1, s1.dom)]

setHeading(st, alpha) ==
    LET s1 == [st EXCEPT !.currentHeading = {headingOf(alpha)}]
    IN  [s1 EXCEPT !.dom = updateBearingUI(s1, s1.dom)]

\* Lines 82-90: whether setCoords goes on to the refresh.
movedFarEnoughLax(oldCoords, coords) ==
    \/ oldCoords = null
    \/ ~(haversineDistance(coords.latitude, coords.longitude,
                           Val(oldCoords).latitude, Val(oldCoords).longitude) <= 250)

movedFarEnough(oldCoords, coords) ==
    \/ oldCoords = null
    \/ ~(haversineDistance(coords.latitude, coords.longitude,
                           Val(oldCoords).latitude, Val(oldCoords).longitude) < 250)

\* Line 91: !this._pendingFetch.
noPendingFetchUnguarded(pending) == TRUE

noPendingFetch(pending) == pending = null

\* fetchNearbyPubs up to its first await: the status, the query for the
\* current location, and the request sent.
fetchNearbyPubs(st) ==
    [st EXCEPT !.dom = setStatus(st.dom, "Fetching nearby pubs", "info"),
               !.inflight = Append(st.inflight,
                   [pc |-> "response", query |-> coordStr(Val(st.currentLocation))])]

setCoords(st, coords) ==
    LET oldCoords == st.currentLocation
        s1 == [st EXCEPT !.currentLocation = {coords}]
        s2 == [s1 EXCEPT !.dom = updateUI(s1, s1.dom)]
    IN  IF ~movedFarEnough(oldCoords, coords) THEN s2
        ELSE IF noPendingFetch(s2.pendingFetch)
             THEN [fetchNearbyPubs(s2) EXCEPT !.pendingFetch = {"promise"}]
             ELSE s2

selectPubNoRender(st, id) == [st EXCEPT !.selectedPubId = {id}]

\* The change listener of the radio input of pub id.
selectPub(st, id) ==
    LET s1 == [st EXCEPT !.selectedPubId = {id}]
    IN  [s1 EXCEPT !.dom = updateUI(s1, s1.dom)]

Remove(s, i) == SubSeq(s, 1, i - 1) \o SubSeq(s, i + 1, Len(s))

\* Line 92: this._pendingFetch once the promise of fetchNearbyPubs has
\* settled, rejected or not; the callback runs as a microtask of the
\* handler that settled it.
afterSettleThen(pending, rejected) == IF rejected THEN pending ELSE null

afterSettle(pending, rejected) == null

\* The activation i of fetchNearbyPubs ends, by a return or by a throw.
settle(st, i, rejected) ==
    [st EXCEPT !.inflight = Remove(st.inflight, i),
               !.pendingFetch = afterSettle(st.pendingFetch, rejected)]

\* response.ok
ok(status) == status >= 200 /\ status <= 299

\* Lines 106-110: fetch() resolved with a response of this status.
onResponse(st, i, status) ==
    IF ~ok(status)
    THEN settle([st EXCEPT !.dom = setStatus(st.dom,
                     "Error fetching local pubs: " \o ToString(status), "error")],
                i, FALSE)
    ELSE [st EXCEPT !.inflight[i].pc = "json"]

\* Lines 112-128 for one element; r.tags.name of an element without tags
\* throws.
mapElement(r) ==
    IF "center" \in DOMAIN r
    THEN [latitude |-> r.center.lat, longitude |-> r.center.lon,
          name |-> IF "name" \in DOMAIN r.tags THEN {r.tags.name} ELSE null,
          id |-> r.id]
    ELSE [latitude |-> r.lat, longitude |-> r.lon,
          name |-> IF "name" \in DOMAIN r.tags THEN {r.tags.name} ELSE null,
          id |-> r.id]

\* json?.elements ?? []
elementsOf(json) == IF "elements" \in DOMAIN json THEN json.elements ELSE <<>>

\* The index of the first element whose mapping throws, or 0.
firstThrow(elements) ==
    LET bad == {k \in DOMAIN elements : "tags" \notin DOMAIN elements[k]}
    IN  IF bad = {} THEN 0 ELSE CHOOSE k \in bad : \A j \in bad : k <= j

\* Lines 112-129: this.nearbyPubs after the body was mapped; a throw in the
\* mapping leaves the assignment of line 129 unexecuted.
assignResultsInPlace(pubs, elements) ==
    LET t == firstThrow(elements)
    IN  IF t # 0 THEN {[k \in 1..(t - 1) |-> mapElement(elements[k])]}
        ELSE {[k \in DOMAIN elements |-> mapElement(elements[k])]}

assignResultsClearing(pubs, elements) ==
    IF firstThrow(elements) # 0 THEN null
    ELSE {[k \in DOMAIN elements |-> mapElement(elements[k])]}

assignResults(pubs, elements) ==
    IF firstThrow(elements) # 0 THEN pubs
    ELSE {[k \in DOMAIN elements |-> mapElement(elements[k])]}

\* Line 129 leaves this.selectedPubId alone.
selectionAfterResetting(sel, pubs) ==
    IF sel # null /\ find(Val(pubs), Val(sel)) = null THEN null ELSE sel

selectionAfter(sel, pubs) == sel

onJsonDroppingStale(st, i, json) ==
    LET elements == elementsOf(json)
        s1 == [st EXCEPT !.nearbyPubs = assignResults(st.nearbyPubs, elements)]
    IN  IF firstThrow(elements) # 0 THEN settle(st, i, TRUE)
        ELSE IF st.inflight[i].query # coordStr(Val(st.currentLocation))
        THEN settle(st, i, FALSE)
        ELSE settle([s1 EXCEPT !.dom = updateUI(s1, s1.dom)], i, FALSE)

\* Lines 111-132: response.json() resolved with this body.
onJson(st, i, json) ==
    LET elements == elementsOf(json)
        s1 == [st EXCEPT !.nearbyPubs = assignResults(st.nearbyPubs, elements)]
    IN  IF firstThrow(elements) # 0 THEN settle(s1, i, TRUE)
        ELSE LET s2 == [s1 EXCEPT !.selectedPubId =
                                      selectionAfter(s1.selectedPubId, s1.nearbyPubs)]
             IN  settle([s2 EXCEPT !.dom = updateUI(s2, s2.dom)], i, FALSE)

----------------------------------------------------------------------------
(* The state machine *)

Last(op, outcome, qualified, started) ==
    [op |-> op, outcome |-> outcome, qualified |-> qualified, started |-> started]

\* A browser with both sensors.
AllSensors == [geolocation |-> TRUE, orientation |-> TRUE]

\* Line 45: "geolocation" in navigator.
geolocationAvailable(nav) == nav.geolocation

\* The state the constructor leaves, the page's sections hidden and empty.
\* Without geolocation, setStatus(..., true) at line 46 throws after it has
\* set the status: the fields of lines 49-54 stay unset (null here) and
\* nothing is subscribed.  With it, lines 49-59 run; the orientation sensor
\* is not looked at.
Constructed ==
    /\ currentLocation = null
    /\ currentHeading = null
    /\ nearbyPubs = null
    /\ selectedPubId = null
    /\ pendingFetch = null
    /\ statusPane =
          IF geolocationAvailable(navigator)
          THEN [classList |-> {"info"}, innerHTML |-> "Fetching location",
                display |-> "block"]
          ELSE [classList |-> {"error"}, innerHTML |-> "Geolocation not available.",
                display |-> "block"]
    /\ compassDiv = [display |-> "none", transform |-> null]
    /\ distanceDiv = [innerHTML |-> null, display |-> "none"]
    /\ nameDiv = [innerHTML |-> null, display |-> "none"]
    /\ pubListElem = [ul |-> <<>>, display |-> "none"]
    /\ inflight = <<>>
    /\ headingListener = geolocationAvailable(navigator)
    /\ positionWatch = geolocationAvailable(navigator)
    /\ last = Last("constructor",
                   IF geolocationAvailable(navigator) THEN "none" ELSE "fatal",
                   FALSE, FALSE)

Init ==
    /\ navigator = AllSensors
    /\ Constructed
    /\ call = null
    /\ result = null

Becomes(st) ==
    /\ currentLocation' = st.currentLocation
    /\ currentHeading' = st.currentHeading
    /\ nearbyPubs' = st.nearbyPubs
    /\ selectedPubId' = st.selectedPubId
    /\ pendingFetch' = st.pendingFetch
    /\ statusPane' = st.dom.statusPane
    /\ compassDiv' = st.dom.compassDiv
    /\ distanceDiv' = st.dom.distanceDiv
    /\ nameDiv' = st.dom.nameDiv
    /\ pubListElem' = st.dom.pubListElem
    /\ inflight' = st.inflight
    /\ UNCHANGED <<subscriptions, harness>>

\* The pubs of a body all of whose elements are well formed.
Mapped(elements) == [k \in DOMAIN elements |-> mapElement(elements[k])]

\* A deviceorientationabsolute event.
HeadingEvent ==
    \E alpha \in Alphas :
        /\ headingListener /\ navigator.orientation
        /\ Becomes(setHeading(State, alpha))
        /\ last' = Last("setHeading", "none", FALSE, FALSE)

\* A position delivered by watchPosition.
LocationEvent ==
    \E lat \in Latitudes :
        LET st == setCoords(State, Coordinate(lat))
        IN  /\ positionWatch
            /\ Becomes(st)
            /\ last' = Last("setCoords", "none",
                            movedFarEnough(currentLocation, Coordinate(lat)),
                            Len(st.inflight) > Len(inflight))
                        @@ [coords |-> Coordinate(lat)]

\* The user checks the radio input of a rendered list item.
SelectEvent ==
    \E k \in DOMAIN pubListElem.ul :
        /\ Becomes(selectPub(State, pubListElem.ul[k].pubId))
        /\ last' = Last("select", "none", FALSE, FALSE)

\* fetch() rejects: a network failure.
FetchRejects ==
    \E i \in DOMAIN inflight :
        /\ inflight[i].pc = "response"
        /\ Becomes(settle(State, i, TRUE))
        /\ last' = Last("fetch", "networkError", FALSE, FALSE)

\* fetch() resolves with a response.
FetchResponds ==
    \E i \in DOMAIN inflight, status \in Statuses :
        /\ inflight[i].pc = "response"
        /\ LET st == onResponse(State, i, status)
           IN  /\ Becomes(st)
               /\ last' = Last("fetch", IF ok(status) THEN "response" ELSE "httpError",
                               FALSE, Len(st.inflight) > Len(inflight))

\* response.json() rejects: the body is not JSON.
JsonRejects ==
    \E i \in DOMAIN inflight :
        /\ inflight[i].pc = "json"
        /\ Becomes(settle(State, i, TRUE))
        /\ last' = Last("fetch", "invalidJson", FALSE, FALSE)

\* response.json() resolves with a body.
JsonResolves ==
    \E i \in DOMAIN inflight, json \in Payloads :
        /\ inflight[i].pc = "json"
        /\ LET st == onJson(State, i, json)
           IN  /\ Becomes(st)
               /\ last' = IF firstThrow(elementsOf(json)) # 0
                          THEN Last("fetch", "malformed", FALSE,
                                    Len(st.inflight) > Len(inflight))
                          ELSE Last("fetch", "success", FALSE,
                                    Len(st.inflight) > Len(inflight))
                               @@ [results |-> Mapped(elementsOf(json)),
                                   stale |-> inflight[i].query
                                               # coordStr(Val(currentLocation))]

Next ==
    \/ HeadingEvent
    \/ LocationEvent
    \/ SelectEvent
    \/ FetchRejects
    \/ FetchResponds
    \/ JsonRejects
    \/ JsonResolves

Spec == Init /\ [][Next]_vars

----------------------------------------------------------------------------
(* Construction in any browser, and teardown *)

\* removeEventListener with a function bound afresh: it is not the function
\* that was registered, and the registration stays.
removeEventListenerRebound(registered) == registered

\* Line 301: removeEventListener with this._onHeading, the function that
\* line 58 registered.
removeEventListener(registered) == FALSE

\* Line 302: clearWatch(this.watchId).
clearWatch(watching) == FALSE

\* Application.dispose: what is left of the two subscriptions.
dispose(subs) ==
    [headingListener |-> removeEventListener(subs.headingListener),
     positionWatch |-> clearWatch(subs.positionWatch)]

\* The page is loaded in a browser with or without each of the two sensors.
InitLifecycle ==
    /\ navigator \in [geolocation : BOOLEAN, orientation : BOOLEAN]
    /\ Constructed
    /\ call = null
    /\ result = null

\* dispose() is called on the application; there is none when the
\* constructor threw.
Dispose ==
    LET subs == dispose([headingListener |-> headingListener,
                         positionWatch |-> positionWatch])
    IN  /\ geolocationAvailable(navigator)
        /\ headingListener' = subs.headingListener
        /\ positionWatch' = subs.positionWatch
        /\ last' = Last("dispose", "none", FALSE, FALSE)
        /\ UNCHANGED <<app, dom, inflight, navigator, harness>>

NextLifecycle ==
    \/ Next
    \/ Dispose

SpecLifecycle == InitLifecycle /\ [][NextLifecycle]_vars

----------------------------------------------------------------------------
(* The pure functions applied on their own *)

\* Number of equal steps the full circle is cut into.
AngleSteps == 24

Angles == {(i * 360) \div AngleSteps : i \in 0..(AngleSteps - 1)}

\* Largest distance in metres.
MaxMeters == 1600

Meters == {m \in 0..MaxMeters : m % 10 # 5}

\* The rotation of lines 175-176 for a target bearing and a raw alpha.
InitBearing ==
    /\ navigator = AllSensors
    /\ Constructed
    /\ call \in {{c} : c \in [bearing : Angles, alpha : Angles]}
    /\ result = null

ApplyBearing ==
    /\ call # null /\ result = null
    /\ result' = {shortRelBearing(Val(call).bearing, headingOf(Val(call).alpha))}
    /\ UNCHANGED <<app, dom, inflight, last, subscriptions, call>>

SpecBearing == InitBearing /\ [][ApplyBearing]_vars

\* distanceStr for a distance.
InitDistance ==
    /\ navigator = AllSensors
    /\ Constructed
    /\ call \in {{[meters |-> m]} : m \in Meters}
    /\ result = null

ApplyDistance ==
    /\ call # null /\ result = null
    /\ result' = {distanceStr(Val(call).meters)}
    /\ UNCHANGED <<app, dom, inflight, last, subscriptions, call>>

SpecDistance == InitDistance /\ [][ApplyDistance]_vars

----------------------------------------------------------------------------
(* Properties *)

Ready == ~NothingToShow(State)

Distance(a, b) ==
    haversineDistance(Val(a).latitude, Val(a).longitude,
                      Val(b).latitude, Val(b).longitude)

\* The refresh policy on the previous and the new coordinate.
Qualifies(previous, current) == previous = null \/ Distance(previous, current) >= 250

FetchStarted == Len(inflight') > Len(inflight)

FailureOutcomes == {"networkError", "httpError", "invalidJson", "malformed"}

\* C1: in every reachable state at most one activation of fetchNearbyPubs is
\* in flight.
C1_AtMostOneFetch == Len(inflight) <= 1

\* A qualifying location update found a fetch awaiting its body and started
\* none.
C1_Witness ==
    /\ last.op = "setCoords" /\ last.qualified /\ ~last.started
    /\ Len(inflight) = 1 /\ inflight[1].pc = "json"

\* C2: the in-flight flag is set exactly while a fetch is in flight, so every
\* completion (return or throw) clears it, and a location update that finds
\* no fetch in flight and qualifies under the refresh policy starts one.
C2_CompletionClearsFlag ==
    /\ [](pendingFetch # null <=> inflight # <<>>)
    /\ [][(last'.op = "setCoords" /\ pendingFetch = null
           /\ Qualifies(currentLocation, currentLocation')) => FetchStarted]_vars

\* A fetch has ended by a throw and the flag is clear.
C2_Witness ==
    /\ last.op = "fetch" /\ last.outcome \in {"networkError", "invalidJson", "malformed"}
    /\ pendingFetch = null /\ inflight = <<>>

\* C3: a location update starts a fetch if and only if no fetch is in flight
\* and there was no previous coordinate or the new one is at least 250 m from
\* the previous one.
C3_RefreshPolicy ==
    [][last'.op = "setCoords" =>
        (FetchStarted <=> (inflight = <<>> /\ Qualifies(currentLocation, currentLocation')))]_vars

\* A move of exactly 250 m started a fetch: candidates were fetched before,
\* and 0 is the only latitude 250 m or more away from 250.
C3_Witness ==
    /\ last.op = "setCoords" /\ last.started
    /\ nearbyPubs # null /\ currentLocation = {Coordinate(250)}

\* C4: a location update that arrives while a fetch is pending starts none
\* and leaves the pending one as it is; a fetch completion starts none; every
\* fetch is started by a location update that itself qualifies.
C4_DroppedNotRetried ==
    [][/\ (last'.op = "setCoords" /\ inflight # <<>>) => inflight' = inflight
       /\ last'.op = "fetch" => ~FetchStarted
       /\ FetchStarted => (last'.op = "setCoords"
                           /\ Qualifies(currentLocation, currentLocation'))]_vars

\* A qualifying location update was dropped: the pending fetch asks for
\* another location than the current one.
C4_Witness ==
    /\ last.op = "setCoords" /\ last.qualified /\ ~last.started
    /\ pendingFetch # null
    /\ inflight[1].query # coordStr(Val(currentLocation))

WellFormedPub(p) == \E id \in PubIds : p = mapElement(Element(id))

\* C5: nearbyPubs changes only in a successful fetch completion (so a failed
\* one leaves it as it was), and every member of it is a whole mapped
\* element.
C5_FailureLeavesCandidates ==
    /\ [](nearbyPubs # null =>
            \A k \in DOMAIN Val(nearbyPubs) : WellFormedPub(Val(nearbyPubs)[k]))
    /\ [][nearbyPubs' # nearbyPubs =>
            (last'.op = "fetch" /\ last'.outcome = "success")]_vars

\* A fetch failed on a malformed payload while candidates were held.
C5_Witness ==
    /\ last.op = "fetch" /\ last.outcome = "malformed"
    /\ nearbyPubs # null /\ Len(Val(nearbyPubs)) > 0

\* C6: after every fetch failure the status pane shows an error status.
C6_FailureReported ==
    (last.op = "fetch" /\ last.outcome \in FailureOutcomes) =>
        (statusPane.display = "block" /\ "error" \in statusPane.classList)

SelectionResolves ==
    /\ selectedPubId # null
    /\ \E k \in DOMAIN Val(nearbyPubs) : Val(nearbyPubs)[k].id = Val(selectedPubId)

DistanceTo(p) ==
    haversineDistance(Val(currentLocation).latitude, Val(currentLocation).longitude,
                      p.latitude, p.longitude)

\* The member the target resolution is to return.
IsTarget(p) ==
    LET pubs == Val(nearbyPubs)
    IN  IF SelectionResolves THEN p.id = Val(selectedPubId)
        ELSE \E k \in DOMAIN pubs :
                /\ pubs[k] = p
                /\ \A j \in DOMAIN pubs : DistanceTo(pubs[j]) >= DistanceTo(p)
                /\ \A j \in 1..(k - 1) : DistanceTo(pubs[j]) > DistanceTo(p)

\* C7: on a non-empty candidate set the target is the selected member if the
\* selection is among the candidates, and otherwise the member at minimum
\* distance that comes first in the candidate set's order.
C7_TargetResolution == Ready => IsTarget(selectedPub(State))

\* Two candidates are equally near, the nearer-listed one is not the first
\* by id, and no selection resolves.
C7_Witness ==
    /\ Ready /\ ~SelectionResolves
    /\ Len(Val(nearbyPubs)) = 2
    /\ DistanceTo(Val(nearbyPubs)[1]) = DistanceTo(Val(nearbyPubs)[2])
    /\ Val(nearbyPubs)[1].id > Val(nearbyPubs)[2].id

\* C8: the selection changes only in a user selection event.
C8_SelectionFrame == [][selectedPubId' # selectedPubId => last'.op = "select"]_vars

\* A successful fetch replaced the candidates by a non-empty set without the
\* selected pub, and the selection is still set.
C8_Witness ==
    /\ last.op = "fetch" /\ last.outcome = "success"
    /\ Ready /\ selectedPubId # null /\ ~SelectionResolves

\* C9: whenever the candidate list is rendered for a non-empty candidate set,
\* exactly the item of the resolved target is flagged as selected.
C9_TargetFlagged ==
    (Ready /\ pubListElem.display = "block") =>
        \A k \in DOMAIN pubListElem.ul :
            pubListElem.ul[k].checked <=> pubListElem.ul[k].pubId = selectedPub(State).id

\* C10: after a successful fetch that returned no candidates, the compass,
\* distance, name and list sections are hidden.
C10_EmptyHidesTarget ==
    (last.op = "fetch" /\ last.outcome = "success" /\ nearbyPubs = {<<>>}) =>
        /\ compassDiv.display = "none"
        /\ distanceDiv.display = "none"
        /\ nameDiv.display = "none"
        /\ pubListElem.display = "none"

\* The rotation is the difference of target bearing and heading up to whole
\* turns.
RotationCongruent ==
    (Val(result) - (Val(call).bearing - headingOf(Val(call).alpha))) % 360 = 0

\* C11 as stated: the rotation is congruent to target bearing - heading
\* modulo 360 and lies in (-180, 180].
C11_RotationHalfOpenAbove ==
    result # null =>
        (RotationCongruent /\ Val(result) > -180 /\ Val(result) <= 180)

\* C11 as amended: the rotation is congruent to target bearing - heading
\* modulo 360 and lies in [-180, 180).
C11_RotationHalfOpenBelow ==
    result # null =>
        (RotationCongruent /\ Val(result) >= -180 /\ Val(result) < 180)

\* A difference of exactly 180 degrees gave -180.
C11_Witness ==
    /\ result = {-180}
    /\ (Val(call).bearing - headingOf(Val(call).alpha)) % 360 = 180

\* The distance string shows kilometres rounded to two decimal places.
InKilometres(meters, str) ==
    /\ str.units = "km"
    /\ 10 * str.distanceStr - meters <= 5
    /\ meters - 10 * str.distanceStr <= 5

InMetres(meters, str) == str = [distanceStr |-> meters, units |-> "m"]

\* C12 as stated: whole metres below 1000 m, kilometres with two decimal
\* places at and above 1000 m.
C12_KilometresFrom1000 ==
    result # null =>
        IF Val(call).meters < 1000 THEN InMetres(Val(call).meters, Val(result))
        ELSE InKilometres(Val(call).meters, Val(result))

\* C12 as amended: whole metres up to and including 1000 m, kilometres with
\* two decimal places above 1000 m.
C12_KilometresAbove1000 ==
    result # null =>
        IF Val(call).meters <= 1000 THEN InMetres(Val(call).meters, Val(result))
        ELSE InKilometres(Val(call).meters, Val(result))

\* Exactly 1000 m was formatted.
C12_Witness == result # null /\ Val(call).meters = 1000

\* C13: a heading update stores 360 - alpha, leaves the coordinate, the
\* candidates, the selection, the in-flight flag, the fetches, and the status,
\* distance, name and list sections as they were, and touches the compass
\* rotation only, and only when a coordinate and candidates are present.
C13_HeadingFrame ==
    [][last'.op = "setHeading" =>
        /\ \E alpha \in Alphas : currentHeading' = {360 - alpha}
        /\ UNCHANGED <<currentLocation, nearbyPubs, selectedPubId, pendingFetch,
                       inflight, statusPane, distanceDiv, nameDiv, pubListElem>>
        /\ compassDiv'.display = compassDiv.display
        /\ ~Ready => compassDiv' = compassDiv]_vars

\* A heading update ran while candidates were shown and the status of a
\* fetch under way was displayed, and the status is still displayed.
C13_Witness ==
    /\ last.op = "setHeading" /\ Ready
    /\ currentHeading = {270}
    /\ statusPane.display = "block"

\* The member of the candidate set that is the target.
Target == CHOOSE p \in {Val(nearbyPubs)[k] : k \in DOMAIN Val(nearbyPubs)} : IsTarget(p)

\* C16: whenever a coordinate and a non-empty candidate set are present, the
\* name and distance displayed are those of the target resolved from the
\* current coordinate, candidates and selection, and the rotation is the
\* relative bearing to that target.
C16_DisplayCurrent ==
    Ready =>
        /\ nameDiv.display = "block" /\ distanceDiv.display = "block"
        /\ nameDiv.innerHTML.text =
              (IF Target.name # null THEN Val(Target.name) ELSE "Unnamed Pub")
        /\ nameDiv.innerHTML.href.destination = <<Target.latitude, Target.longitude>>
        /\ distanceDiv.innerHTML = [distanceStr |-> DistanceTo(Target), units |-> "m"]
        /\ compassDiv.transform =
              {shortRelBearing(IF Target.latitude >= Val(currentLocation).latitude
                               THEN 0 ELSE 180,
                               Number(currentHeading))}

\* The user selected a pub that is not the nearest, and it is displayed.
C16_Witness ==
    /\ Ready /\ last.op = "select" /\ SelectionResolves
    /\ \E k \in DOMAIN Val(nearbyPubs) : DistanceTo(Val(nearbyPubs)[k]) < DistanceTo(Target)

\* C14: a location update stores the delivered coordinate at once, also when
\* a fetch is pending; a fetch asks for the coordinate current at its start;
\* a successful response is applied whatever the coordinate has become, and
\* the display is that of the coordinate current at its arrival.
C14_StaleResponseApplied ==
    /\ []C16_DisplayCurrent
    /\ [][/\ last'.op = "setCoords" => currentLocation' = {last'.coords}
          /\ FetchStarted =>
                inflight'[Len(inflight')].query = coordStr(Val(currentLocation'))
          /\ (last'.op = "fetch" /\ last'.outcome = "success") =>
                /\ nearbyPubs' = {last'.results}
                /\ currentLocation' = currentLocation]_vars

\* A response was applied after the coordinate had moved away from the one
\* the fetch asked for.
C14_Witness ==
    /\ last.op = "fetch" /\ last.outcome = "success" /\ last.stale
    /\ Ready

\* C17: the coordinate and the candidate set never return to null, and a
\* pending fetch or a candidate set implies a coordinate.
C17_ForwardOnly ==
    /\ []((inflight # <<>> \/ pendingFetch # null \/ nearbyPubs # null)
            => currentLocation # null)
    /\ [][/\ currentLocation # null => currentLocation' # null
          /\ nearbyPubs # null => nearbyPubs' # null]_vars

\* A fetch failed while candidates were held, and they are still held.
C17_Witness ==
    /\ last.op = "fetch" /\ last.outcome = "invalidJson"
    /\ nearbyPubs # null /\ currentLocation # null

\* C18: once a fetch has completed, the status "Fetching nearby pubs" is no
\* longer displayed.
C18_FetchingStatusGone ==
    (last.op = "fetch" /\ last.outcome # "response") =>
        ~(statusPane.display = "block" /\ statusPane.innerHTML = "Fetching nearby pubs")

\* The application as its constructor left it after the fatal error: no
\* subscription, no field set, no event handled.
Halted ==
    /\ statusPane = [classList |-> {"error"},
                     innerHTML |-> "Geolocation not available.",
                     display |-> "block"]
    /\ ~headingListener /\ ~positionWatch
    /\ currentLocation = null /\ currentHeading = null /\ nearbyPubs = null
    /\ inflight = <<>>
    /\ last.op = "constructor" /\ last.outcome = "fatal"

\* C15: when the location source or the orientation source is missing at
\* startup, initialization reports a fatal error and halts, no subscription
\* is registered and no location or heading event is ever handled.
C15_MissingSensorHalts ==
    (~navigator.geolocation \/ ~navigator.orientation) => Halted

Released == ~headingListener /\ ~positionWatch

\* C19: dispose releases the orientation subscription and the location watch
\* and touches nothing else, no location or heading event is handled once
\* both are released, and a second dispose leaves every field as the first
\* left it.
C19_DisposeReleases ==
    [][/\ last'.op = "dispose" =>
            /\ Released'
            /\ UNCHANGED <<app, dom, inflight, navigator>>
       /\ (last.op = "dispose" /\ last'.op = "dispose") => UNCHANGED vars
       /\ Released => (Released' /\ last'.op \notin {"setCoords", "setHeading"})]_vars

\* dispose ran on a working application that had a coordinate and a fetch
\* in flight.
C19_Witness ==
    /\ last.op = "dispose" /\ Released
    /\ navigator = AllSensors
    /\ currentLocation # null /\ inflight # <<>>

====
